---- MODULE Spec2Model ----
(***************************************************************************)
(* Template-and-certificate coordination of django-netjsonconfig:          *)
(* AbstractConfig / TemplatesVpnMixin (base/config.py) and                  *)
(* BaseVpn / VpnClient (models/vpn.py).                                     *)
(*                                                                         *)
(* The database is modelled by the db* variables, `attached`, `vpnclients` *)
(* and `certs`; the fields of the in-memory model instance of each         *)
(* configuration by `adding`, `status`, `backend` and `config`.            *)
(***************************************************************************)
EXTENDS Integers, Sequences, FiniteSets, Bags, TLC

VARIABLES
    adding,      \* [Configs -> BOOLEAN]: instance._state.adding (no row yet)
    status,      \* [Configs -> STATUS]: instance.status
    backend,     \* [Configs -> Backends]: instance.backend
    config,      \* [Configs -> Documents]: instance.config
    dbStatus,    \* persisted row of the configuration: status
    dbBackend,   \* persisted row of the configuration: backend
    dbConfig,    \* persisted row of the configuration: config
    attached,    \* [Configs -> SUBSET Templates]: rows of the templates m2m table
    vpnclients,  \* bag of VpnClient rows [config, vpn, auto_cert, cert]
    certs,       \* ids of the django_x509 Cert rows that exist
    device,      \* [Configs -> Device row or NoDevice]: instance.device
    CONTEXT,     \* app_settings.CONTEXT, the process-wide default variables
    context,     \* the mapping the last get_context() returned
    tx,          \* [Procs -> the open transaction of a concurrent add()]
    teardown,    \* the VpnClient.delete() that is under way, if any
    issuing,     \* whether cert.save() of django_x509 succeeds
    vpns,        \* [Vpns -> the Vpn instance and its stored row]
    servercerts, \* the server certificates, rows of django_x509 Cert
    last         \* the last operation and the error it raised, if any

vars == <<adding, status, backend, config, dbStatus, dbBackend, dbConfig,
          attached, vpnclients, certs, device, CONTEXT, context, tx, last,
                   teardown,
                   issuing,
                   vpns,
                   servercerts>>

-----------------------------------------------------------------------------
(* Bounds *)

\* number of certificate ids the store can hand out
MaxCerts == 3

-----------------------------------------------------------------------------
(* The universe: configurations, VPNs, templates *)

Configs == {"c1", "c2"}

Vpns == {"v1", "v2"}

Templates == {"t1", "t2", "t3", "t4", "t5"}

\* default ordering of a Template queryset
TemplateOrder == <<"t1", "t2", "t3", "t4", "t5">>

Backends == {"openwrt", "openwisp"}

None == "None"

\* A NetJSON fragment is a set of <<field, value>> pairs.
EmptyDoc == {}

TemplateTable ==
    [t \in Templates |->
        CASE t = "t1" -> [type |-> "vpn", vpn |-> "v1", auto_cert |-> TRUE,
                          default |-> FALSE, backend |-> "openwrt",
                          config |-> {<<"proto", "udp">>}]
          [] t = "t2" -> [type |-> "vpn", vpn |-> "v1", auto_cert |-> FALSE,
                          default |-> FALSE, backend |-> "openwrt",
                          config |-> EmptyDoc]
          [] t = "t3" -> [type |-> "vpn", vpn |-> "v2", auto_cert |-> TRUE,
                          default |-> TRUE, backend |-> "openwisp",
                          config |-> {<<"proto", "tcp">>}]
          [] t = "t4" -> [type |-> "generic", vpn |-> None, auto_cert |-> FALSE,
                          default |-> TRUE, backend |-> "openwrt",
                          config |-> {<<"mtu", "1500">>}]
          [] t = "t5" -> [type |-> "vpn", vpn |-> "v1", auto_cert |-> TRUE,
                          default |-> FALSE, backend |-> "openwrt",
                          config |-> EmptyDoc]]

\* backend and config of the instance a caller constructs for each configuration
InitialBackend == [c \in Configs |-> "openwrt"]

InitialConfig == [c \in Configs |-> EmptyDoc]

STATUS == {"modified", "running", "error"}

\* the Device row of each configuration
DeviceTable ==
    [c \in Configs |->
        IF c = "c1"
        THEN [id |-> "d1", key |-> "k1", name |-> "router1",
              mac_address |-> "00:11:22:33:44:01"]
        ELSE [id |-> "d2", key |-> "k2", name |-> "router2",
              mac_address |-> "00:11:22:33:44:02"]]

\* the instance has no device attribute
NoDevice == [id |-> ""]

\* pk.hex and the CA of each Vpn row
VpnTable ==
    [v \in Vpns |->
        IF v = "v1"
        THEN [hex |-> "0a1b", ca |-> [pk |-> "1", common_name |-> "ca-one",
                                      certificate |-> "CA-ONE-PEM"]]
        ELSE [hex |-> "0a1c", ca |-> [pk |-> "300", common_name |-> "ca-two",
                                      certificate |-> "CA-TWO-PEM"]]]

\* the rows of django_x509 Ca, by common name
Cas == {"ca-one", "ca-two"}

\* the integer primary key of each Ca row
CaPk == [ca \in Cas |-> IF ca = "ca-one" THEN 1 ELSE 300]

\* name of each Vpn
VpnName == [v \in Vpns |-> IF v = "v1" THEN "Office VPN" ELSE "lab"]

\* a Vpn that is stored, with the server certificate its first save created
StoredVpn(v) ==
    [adding |-> FALSE, ca |-> VpnTable[v].ca.common_name,
     cert |-> IF v = "v1" THEN 1 ELSE 2,
     row |-> [ca |-> VpnTable[v].ca.common_name,
              cert |-> IF v = "v1" THEN 1 ELSE 2]]

StoredCert(v) ==
    [id |-> StoredVpn(v).cert, ca |-> StoredVpn(v).ca,
     common_name |-> IF v = "v1" THEN "office-vpn" ELSE "lab",
     nsCertType |-> "server"]

\* app_settings.CERT_PATH
CERT_PATH == "/etc/x509"

-----------------------------------------------------------------------------
(* Errors *)

NoField == ""

NoError == [type |-> "None", field |-> NoField, message |-> ""]

ValidationError(field, message) ==
    [type |-> "ValidationError", field |-> field, message |-> message]

IntegrityError == [type |-> "IntegrityError", field |-> NoField,
                   message |-> "UNIQUE constraint failed"]

\* what cert.save() raises when the certificate cannot be created
CertError == [type |-> "Exception", field |-> NoField,
              message |-> "certificate could not be created"]

\* the store has no certificate id left: the model does not go further
Exhausted == [type |-> "Exhausted", field |-> NoField, message |-> ""]

-----------------------------------------------------------------------------
(* The state handed from one handler to the next *)

State ==
    [adding |-> adding, status |-> status, backend |-> backend, config |-> config,
     dbStatus |-> dbStatus, dbBackend |-> dbBackend, dbConfig |-> dbConfig,
     attached |-> attached, vpnclients |-> vpnclients, certs |-> certs,
     issuing |-> issuing]

\* a handler's outcome: the state it leaves and the error it raised
Result(st, err) == [st |-> st, err |-> err]

\* an exception ends the sequence of calls; otherwise the next call runs on
\* the state the last one left
Then(r, next(_)) == IF r.err # NoError THEN r ELSE next(r.st)

Becomes(st) ==
    /\ adding' = st.adding
    /\ status' = st.status
    /\ backend' = st.backend
    /\ config' = st.config
    /\ dbStatus' = st.dbStatus
    /\ dbBackend' = st.dbBackend
    /\ dbConfig' = st.dbConfig
    /\ attached' = st.attached
    /\ vpnclients' = st.vpnclients
    /\ certs' = st.certs
    /\ UNCHANGED <<device, CONTEXT, context, tx,
                   teardown,
                   issuing,
                   vpns,
                   servercerts>>

\* The m2m add/remove/clear of the ORM runs in transaction.atomic: when a
\* handler raises, every row written since the operation began is rolled back;
\* the fields of the in-memory instance keep what the handlers assigned.
Rollback(before, st) ==
    [before EXCEPT !.status = st.status, !.adding = st.adding]

atomic(before, r) ==
    IF r.err # NoError THEN Result(Rollback(before, r.st), r.err) ELSE r

-----------------------------------------------------------------------------
(* ConfigBackend: merge and validation of the NetJSON document *)

\* the templates of a set, in queryset order
RECURSIVE OrderedFrom(_, _)
OrderedFrom(seq, S) ==
    IF seq = <<>> THEN <<>>
    ELSE IF Head(seq) \in S THEN <<Head(seq)>> \o OrderedFrom(Tail(seq), S)
         ELSE OrderedFrom(Tail(seq), S)

Ordered(S) == OrderedFrom(TemplateOrder, S)

\* instance.get_backend_instance(template_instances=templates): the backend is
\* given the fragments of the templates passed in, first to last, and the
\* configuration's own fragment
get_backend_instance(c, templates, st) ==
    [backend |-> st.backend[c],
     templates |-> [i \in 1..Len(Ordered(templates)) |->
                        TemplateTable[Ordered(templates)[i]].config],
     config |-> st.config[c]]

\* the merged document: every template's fragment, then the configuration's
Merged(b) ==
    UNION {b.templates[i] : i \in 1..Len(b.templates)} \cup b.config

\* a document is invalid when it gives two values to the same field
Conflicts(doc) == {p \in doc : \E q \in doc : q[1] = p[1] /\ q[2] # p[2]}

BackendMessage == "Invalid configuration"

clean_netjsonconfig_backend(b) ==
    IF Conflicts(Merged(b)) # {} THEN ValidationError(NoField, BackendMessage)
    ELSE NoError

-----------------------------------------------------------------------------
(* VpnClient: models/vpn.py *)

\* cert = models.OneToOneField(..., null=True): the null reference
NoCert == 0

\* the requests that run templates.add() at the same time
Procs == {"p1", "p2"}

NoClient == [config |-> None, vpn |-> None, auto_cert |-> FALSE, cert |-> NoCert]

\* no VpnClient.delete() is under way
NoTeardown == [pc |-> "idle", row |-> NoClient, delete |-> FALSE]

\* no add() is running in the request
Idle == [pc |-> "idle", cfg |-> None, tpl |-> None, pk_set |-> {}, link |-> FALSE,
         client |-> NoClient, inserted |-> FALSE, err |-> NoError]

VpnClient(c, v, auto_cert) ==
    [config |-> c, vpn |-> v, auto_cert |-> auto_cert, cert |-> NoCert]

Rows(st) == BagToSet(st.vpnclients)


One(row) == SetToBag({row})

\* variant: the model declares no unique_together
unique_together_dropped(client, st) == {}

\* Meta.unique_together = ('config', 'vpn'): the rows a new row would clash with
unique_together(client, st) ==
    {b \in Rows(st) : b.config = client.config /\ b.vpn = client.vpn}

UniqueMessage == "Vpn client with this Config and Vpn already exists."

\* Model.full_clean() of a new VpnClient: validate_unique on unique_together
full_clean(client, st) ==
    IF unique_together(client, st) # {}
    THEN ValidationError("__all__", UniqueMessage)
    ELSE NoError

CertIds == 1..MaxCerts

FreshCert(st) ==
    CHOOSE k \in CertIds \ st.certs : \A j \in CertIds \ st.certs : k <= j

\* variant: a failure of cert.save() is swallowed and no certificate is set
_auto_create_cert_swallows(client, st) ==
    IF ~st.issuing THEN [st |-> st, err |-> NoError, client |-> client]
    ELSE IF CertIds \ st.certs = {} THEN Result(st, Exhausted)
    ELSE [st |-> [st EXCEPT !.certs = @ \cup {FreshCert(st)}],
          err |-> NoError,
          client |-> [client EXCEPT !.cert = FreshCert(st)]]

\* VpnClient._auto_create_cert: cert.save(); self.cert = cert
_auto_create_cert(client, st) ==
    IF ~st.issuing THEN Result(st, CertError)
    ELSE IF CertIds \ st.certs = {} THEN Result(st, Exhausted)
    ELSE LET k == FreshCert(st)
         IN  [st |-> [st EXCEPT !.certs = @ \cup {k}],
              err |-> NoError,
              client |-> [client EXCEPT !.cert = k]]

\* variant: the table has no unique index on (config, vpn)
Model_save_no_index(client, st) ==
    Result([st EXCEPT !.vpnclients = @ (+) One(client)], NoError)

\* models.Model.save() of a new row: the insert, which the unique index on
\* (config, vpn) refuses when the pair is taken
Model_save(client, st) ==
    IF unique_together(client, st) # {} THEN Result(st, IntegrityError)
    ELSE Result([st EXCEPT !.vpnclients = @ (+) One(client)], NoError)

\* VpnClient.save() of a row that is not stored yet
VpnClient_save(client, st) ==
    LET issued == IF client.auto_cert THEN _auto_create_cert(client, st)
                  ELSE [st |-> st, err |-> NoError, client |-> client]
    IN  IF issued.err # NoError THEN Result(issued.st, issued.err)
        ELSE Model_save(issued.client, issued.st)

\* VpnClient.save() of a stored row: the row is updated in place
VpnClient_update(row, st) ==
    LET issued == IF row.auto_cert THEN _auto_create_cert(row, st)
                  ELSE [st |-> st, err |-> NoError, client |-> row]
    IN  IF issued.err # NoError THEN Result(issued.st, issued.err)
        ELSE Result([issued.st EXCEPT
                         !.vpnclients = (@ (-) One(row)) (+) One(issued.client)],
                    NoError)

AttributeError == [type |-> "AttributeError", field |-> NoField,
                   message |-> "'NoneType' object has no attribute 'delete'"]

\* Cert.delete(): on_delete=CASCADE of VpnClient.cert takes the rows that
\* still reference the certificate with it
Cert_delete(k, st) ==
    [st EXCEPT !.certs = @ \ {k},
               !.vpnclients = [b \in {r \in DOMAIN @ : r.cert # k} |-> @[b]]]

\* variant: the certificate is deleted together with the row
Model_delete_with_cert(row, st) ==
    [st EXCEPT !.vpnclients = @ (-) One(row), !.certs = @ \ {row.cert}]

\* models.Model.delete() of a VpnClient row
Model_delete(row, st) == [st EXCEPT !.vpnclients = @ (-) One(row)]

\* variant: delete() removes the row and leaves the certificate
VpnClient_delete_row_only(row, st) ==
    Result([st EXCEPT !.vpnclients = @ (-) One(row)], NoError)

\* VpnClient.delete()
VpnClient_delete(row, st) ==
    LET delete == row.auto_cert
        st1 == Model_delete(row, st)
    IN  IF ~delete THEN Result(st1, NoError)
        ELSE IF row.cert = NoCert THEN Result(st1, AttributeError)
             ELSE Result(Cert_delete(row.cert, st1), NoError)

\* for client in <queryset>: client.delete()
RECURSIVE delete_each(_, _)
delete_each(clients, st) ==
    IF clients = EmptyBag THEN Result(st, NoError)
    ELSE LET row == CHOOSE b \in BagToSet(clients) : TRUE
             rest(s) == delete_each(clients (-) One(row), s)
         IN  Then(VpnClient_delete(row, st), rest)

\* instance.vpnclient_set.all()
vpnclient_set(c, st) ==
    [b \in {r \in DOMAIN st.vpnclients : r.config = c} |-> st.vpnclients[b]]

-----------------------------------------------------------------------------
(* AbstractConfig and TemplatesVpnMixin: base/config.py *)

RECURSIVE save(_, _)

\* AbstractConfig._set_status
_set_status(c, new_status, do_save, st) ==
    LET st1 == [st EXCEPT !.status[c] = new_status]
    IN  IF do_save THEN save(c, st1) ELSE Result(st1, NoError)

set_status_modified(c, do_save, st) == _set_status(c, "modified", do_save, st)

set_status_running(c, do_save, st) == _set_status(c, "running", do_save, st)

set_status_error(c, do_save, st) == _set_status(c, "error", do_save, st)

\* variant: clean compares the backend only
clean_backend_only(c, st) ==
    IF st.adding[c] THEN Result(st, NoError)
    ELSE IF st.backend[c] # st.dbBackend[c]
         THEN set_status_modified(c, FALSE, st)
         ELSE Result(st, NoError)

\* variant: clean marks a changed configuration as running
clean_marks_running(c, st) ==
    IF st.adding[c] THEN Result(st, NoError)
    ELSE IF st.backend[c] # st.dbBackend[c] \/ st.config[c] # st.dbConfig[c]
         THEN set_status_running(c, FALSE, st)
         ELSE Result(st, NoError)

\* AbstractConfig.clean
clean(c, st) ==
    IF st.adding[c] THEN Result(st, NoError)
    ELSE IF st.backend[c] # st.dbBackend[c] \/ st.config[c] # st.dbConfig[c]
         THEN set_status_modified(c, FALSE, st)
         ELSE Result(st, NoError)

\* TemplatesVpnMixin.get_default_templates
get_default_templates(c, st) ==
    {t \in Templates : /\ TemplateTable[t].default
                       /\ st.backend[c] # "" => TemplateTable[t].backend = st.backend[c]}

\* TemplatesVpnMixin.get_templates_from_pk_set; {} stands for False
get_templates_from_pk_set(action, pk_set) ==
    IF action # "pre_add" THEN {} ELSE pk_set

ConflictPrefix == "There is a conflict with the specified templates. "

\* variant: the backend's error is raised as it is, without the prefix
clean_templates_reraises(action, c, pk_set, st) ==
    LET templates == get_templates_from_pk_set(action, pk_set)
    IN  IF templates = {} THEN NoError
        ELSE clean_netjsonconfig_backend(get_backend_instance(c, templates, st))

\* TemplatesVpnMixin.clean_templates: the error it raises, or NoError
clean_templates(action, c, pk_set, st) ==
    LET templates == get_templates_from_pk_set(action, pk_set)
    IN  IF templates = {} THEN NoError
        ELSE LET e == clean_netjsonconfig_backend(
                          get_backend_instance(c, templates, st))
             IN  IF e # NoError
                 THEN ValidationError(NoField, ConflictPrefix \o e.message)
                 ELSE NoError

PostActions == {"post_add", "post_remove", "post_clear"}

\* variant: post_clear is missing from the list of actions
templates_changed_add_remove(action, c, st) ==
    IF action \notin {"post_add", "post_remove"} THEN Result(st, NoError)
    ELSE IF st.status[c] # "modified" THEN set_status_modified(c, TRUE, st)
         ELSE Result(st, NoError)

\* TemplatesVpnMixin.templates_changed
templates_changed(action, c, st) ==
    IF action \notin PostActions THEN Result(st, NoError)
    ELSE IF st.status[c] # "modified" THEN set_status_modified(c, TRUE, st)
         ELSE Result(st, NoError)

\* the loop of manage_vpn_clients over templates.filter(type='vpn')
RECURSIVE manage_each(_, _, _, _)
manage_each(action, c, templates, st) ==
    IF templates = <<>> THEN Result(st, NoError)
    ELSE LET template == TemplateTable[Head(templates)]
             client == VpnClient(c, template.vpn, template.auto_cert)
             client_save(s) == VpnClient_save(client, s)
             rest(s) == manage_each(action, c, Tail(templates), s)
         IN  Then(IF action = "post_add"
                  THEN Then(Result(st, full_clean(client, st)), client_save)
                  ELSE IF action = "post_remove"
                  THEN delete_each(
                           [b \in {x \in DOMAIN vpnclient_set(c, st) :
                                       x.vpn = template.vpn}
                               |-> st.vpnclients[b]], st)
                  ELSE Result(st, NoError),
                  rest)

\* variant: post_clear is handled like post_remove, by the templates of pk_set
manage_vpn_clients_by_pk_set(action, c, pk_set, st) ==
    IF action \notin PostActions THEN Result(st, NoError)
    ELSE manage_each(action, c,
                     Ordered({t \in pk_set : TemplateTable[t].type = "vpn"}),
                     st)

\* TemplatesVpnMixin.manage_vpn_clients; pk_set is {} on post_clear
manage_vpn_clients(action, c, pk_set, st) ==
    IF action \notin PostActions THEN Result(st, NoError)
    ELSE IF action = "post_clear"
         THEN delete_each(vpnclient_set(c, st), st)
         ELSE manage_each(action, c,
                          Ordered({t \in pk_set : TemplateTable[t].type = "vpn"}),
                          st)

\* m2m_changed: the three receivers connected to Config.templates.through are
\* called in the order they were connected
m2m_changed(action, c, pk_set, st) ==
    LET second(s) == templates_changed(action, c, s)
        third(s) == manage_vpn_clients(action, c, pk_set, s)
    IN  Then(Then(Result(st, clean_templates(action, c, pk_set, st)), second),
             third)

\* instance.templates.add(*objs): pre_add, the rows, post_add, all in one
\* transaction; only the templates not attached yet are in pk_set
templates_add(c, objs, st) ==
    LET new_ids == objs \ st.attached[c]
        rows(s) == m2m_changed("post_add", c, new_ids,
                               [s EXCEPT !.attached[c] = @ \cup new_ids])
    IN  atomic(st, Then(m2m_changed("pre_add", c, new_ids, st), rows))

\* instance.templates.remove(*objs): pk_set holds every template passed
templates_remove(c, objs, st) ==
    LET rows(s) == m2m_changed("post_remove", c, objs,
                               [s EXCEPT !.attached[c] = @ \ objs])
    IN  atomic(st, Then(m2m_changed("pre_remove", c, objs, st), rows))

\* instance.templates.clear()
templates_clear(c, st) ==
    LET rows(s) == m2m_changed("post_clear", c, {},
                               [s EXCEPT !.attached[c] = {}])
    IN  atomic(st, Then(m2m_changed("pre_clear", c, {}, st), rows))

\* TemplatesVpnMixin.save
save(c, st) ==
    LET created == st.adding[c]
        st1 == [st EXCEPT !.adding[c] = FALSE,
                          !.dbStatus[c] = st.status[c],
                          !.dbBackend[c] = st.backend[c],
                          !.dbConfig[c] = st.config[c]]
    IN  IF created
        THEN LET default_templates == get_default_templates(c, st1)
             IN  IF default_templates # {}
                 THEN templates_add(c, default_templates, st1)
                 ELSE Result(st1, NoError)
        ELSE Result(st1, NoError)

-----------------------------------------------------------------------------
(* Operations *)

\* what the operation was, on which configuration, the status the instance had
\* before it, and the error it raised
Done(op, c, err) == last' = [op |-> op, cfg |-> c, was |-> status[c], err |-> err]

\* the call returns or raises: the state it left and its error are what the
\* caller sees; a call that would need a certificate id beyond the bound is
\* not taken
Returns(op, c, r) ==
    /\ r.err # Exhausted
    /\ Becomes(r.st)
    /\ Done(op, c, r.err)

\* a new, unsaved instance of the configuration
NewInstance(c, st) ==
    [st EXCEPT !.adding[c] = TRUE, !.status[c] = "modified",
               !.backend[c] = InitialBackend[c], !.config[c] = InitialConfig[c],
               !.dbStatus[c] = "modified", !.dbBackend[c] = InitialBackend[c],
               !.dbConfig[c] = InitialConfig[c]]

Init ==
    /\ adding = [c \in Configs |-> TRUE]
    /\ status = [c \in Configs |-> "modified"]
    /\ backend = InitialBackend
    /\ config = InitialConfig
    /\ dbStatus = [c \in Configs |-> "modified"]
    /\ dbBackend = InitialBackend
    /\ dbConfig = InitialConfig
    /\ attached = [c \in Configs |-> {}]
    /\ vpnclients = EmptyBag
    /\ certs = {}
    /\ device = [c \in Configs |-> DeviceTable[c]]
    /\ CONTEXT = <<>>
    /\ context = <<>>
    /\ tx = [p \in Procs |-> Idle]
    /\ servercerts = {StoredCert(v) : v \in Vpns}
    /\ vpns = [v \in Vpns |-> StoredVpn(v)]
    /\ issuing = TRUE
    /\ teardown = NoTeardown
    /\ last = [op |-> "init", cfg |-> None, was |-> None, err |-> NoError]

\* instance.save()
Save(c) ==
    Returns("save", c, save(c, State))

\* instance.delete(): the m2m rows and the VpnClient rows of the configuration
\* go with it by on_delete=CASCADE, which does not call VpnClient.delete()
Delete(c) ==
    /\ ~adding[c]
    /\ Becomes(NewInstance(c,
           [State EXCEPT !.attached[c] = {},
                         !.vpnclients = [b \in {r \in DOMAIN @ : r.config # c}
                                            |-> @[b]]]))
    /\ Done("delete", c, NoError)

\* instance.templates.add(*objs)
Attach(c, objs) ==
    /\ ~adding[c]
    /\ Returns("add", c, templates_add(c, objs, State))

\* instance.templates.remove(*objs)
Detach(c, objs) ==
    /\ ~adding[c]
    /\ Returns("remove", c, templates_remove(c, objs, State))

\* instance.templates.clear()
Clear(c) ==
    /\ ~adding[c]
    /\ Returns("clear", c, templates_clear(c, State))

\* set_status_modified / set_status_running / set_status_error
SetStatus(c, s, do_save) ==
    /\ Returns("set_status", c, _set_status(c, s, do_save, State))

\* client = VpnClient(config=c, vpn=v, auto_cert=a); client.full_clean();
\* client.save() by a caller
CreateClient(c, v, a) ==
    /\ ~adding[c]
    /\ LET client_save(st) == VpnClient_save(VpnClient(c, v, a), st)
       IN  Returns("client_create", c,
                   Then(Result(State, full_clean(VpnClient(c, v, a), State)),
                        client_save))

\* VpnClient(config=c, vpn=v, auto_cert=a).save() by a caller, unvalidated
SaveClient(c, v, a) ==
    /\ ~adding[c]
    /\ Returns("client_save", c, VpnClient_save(VpnClient(c, v, a), State))

\* client.save() of a stored row by a caller
ResaveClient(row) ==
    /\ row \in Rows(State)
    /\ Returns("client_resave", row.config, VpnClient_update(row, State))

\* client.delete() by a caller
DeleteClient(row) ==
    /\ row \in Rows(State)
    /\ Returns("client_delete", row.config, VpnClient_delete(row, State))

\* instance.backend = b; instance.config = d by a caller
Edit(c, b, d) ==
    /\ Becomes([State EXCEPT !.backend[c] = b, !.config[c] = d])
    /\ Done("edit", c, NoError)

\* instance.clean(), the validate-before-save step; BaseConfig.clean, which it
\* calls first, is taken to return
Clean(c) ==
    Returns("clean", c, clean(c, State))

\* the templates a caller picks from for each configuration
Offered(c) == IF c = "c1" THEN {"t1", "t2", "t3", "t4"} ELSE {"t1"}

\* the configurations a caller creates VpnClient rows for by hand
ManualConfigs == {"c1"}

\* the rows a caller creates by hand: <<vpn, auto_cert>>
ManualClients == {<<"v1", FALSE>>, <<"v2", TRUE>>}

\* the sets of templates passed to one add() or remove(): each template alone,
\* two templates of the same vpn, two templates whose fragments conflict, and
\* a vpn template with a generic one
PkSets(c) ==
    ({{t} : t \in Templates} \cup {{"t1", "t2"}, {"t1", "t3"}, {"t3", "t4"}})
        \cap SUBSET Offered(c)

Next ==
    \/ \E c \in Configs : Save(c)
    \/ \E c \in Configs : \E objs \in PkSets(c) : Attach(c, objs)
    \/ \E c \in Configs : \E objs \in PkSets(c) : Detach(c, objs)
    \/ \E c \in Configs : Clear(c)
    \/ \E c \in ManualConfigs : \E m \in ManualClients : CreateClient(c, m[1], m[2])
    \/ \E row \in Rows(State) : DeleteClient(row)

Spec == Init /\ [][Next]_vars

-----------------------------------------------------------------------------
(* Properties of the template-set operations, checked under Spec *)

\* the number of VpnClient rows of a (configuration, vpn) pair
PairCount(clients, c, v) ==
    BagCardinality([b \in {r \in DOMAIN clients : r.config = c /\ r.vpn = v}
                       |-> clients[b]])

OnePerPair == \A c \in Configs, v \in Vpns : PairCount(vpnclients, c, v) <= 1

\* some template to attach is of type vpn and its pair already has a row
Clashes(c, new_ids) ==
    \E t \in new_ids : /\ TemplateTable[t].type = "vpn"
                       /\ PairCount(vpnclients, c, TemplateTable[t].vpn) >= 1

SecondAddFails ==
    \A c \in Configs : \A objs \in PkSets(c) :
        (/\ last'.op = "add" /\ last'.cfg = c
         /\ Clashes(c, objs \ attached[c])
         /\ Attach(c, objs))
            => /\ last'.err # NoError
               /\ \A v \in Vpns :
                      PairCount(vpnclients', c, v) = PairCount(vpnclients, c, v)

\* C1: whatever templates are attached, detached or cleared, a (configuration,
\* vpn) pair never has more than one VpnClient row, and an add() whose post_add
\* would create a second row for a pair that has one fails with an error and
\* creates none.
C1_OneBindingPerPair == []OnePerPair /\ [][SecondAddFails]_vars

\* an add() was refused by the uniqueness check while the pair keeps its row
C1_Witness ==
    /\ last.op = "add"
    /\ last.err = ValidationError("__all__", UniqueMessage)
    /\ PairCount(vpnclients, last.cfg, "v1") = 1

AutoCertTemplates ==
    {t \in Templates : TemplateTable[t].type = "vpn" /\ TemplateTable[t].auto_cert}

AttachIssuesOne ==
    \A c \in Configs : \A t \in AutoCertTemplates \cap Offered(c) :
        (/\ last'.op = "add" /\ last'.cfg = c /\ last'.err = NoError
         /\ t \notin attached[c]
         /\ Attach(c, {t}))
            => \E k \in CertIds \ certs :
                   /\ certs' = certs \cup {k}
                   /\ vpnclients' = vpnclients (+)
                          One([config |-> c, vpn |-> TemplateTable[t].vpn,
                               auto_cert |-> TRUE, cert |-> k])

DetachDeletesThatOne ==
    \A c \in Configs : \A t \in AutoCertTemplates \cap Offered(c) :
        \A k \in certs :
            LET row == [config |-> c, vpn |-> TemplateTable[t].vpn,
                        auto_cert |-> TRUE, cert |-> k]
            IN  (/\ last'.op = "remove" /\ last'.cfg = c
                 /\ row \in Rows(State)
                 /\ Detach(c, {t}))
                    => /\ last'.err = NoError
                       /\ certs' = certs \ {k}
                       /\ vpnclients' = vpnclients (-) One(row)

\* C2: attaching a vpn template with auto_cert creates exactly one certificate,
\* referenced by the new row of (configuration, template's vpn); removing the
\* template deletes that row and that certificate, and no other row or
\* certificate changes.
C2_AttachDetachOneCert == [][AttachIssuesOne /\ DetachDeletesThatOne]_vars

\* t1 was attached to c1: its row holds a certificate, next to the rows and
\* certificates of another vpn and of another configuration
C2_Witness ==
    /\ last.op = "add" /\ last.cfg = "c1" /\ last.err = NoError
    /\ "t1" \in attached["c1"]
    /\ \E k \in certs :
           [config |-> "c1", vpn |-> "v1", auto_cert |-> TRUE, cert |-> k]
               \in Rows(State)
    /\ \E b \in Rows(State) : b.config = "c1" /\ b.vpn = "v2"
    /\ \E b \in Rows(State) : b.config = "c2" /\ b.cert # NoCert

ClearRemovesAll ==
    \A c \in Configs :
        (last'.op = "clear" /\ last'.cfg = c)
            => /\ vpnclient_set(c, State') = EmptyBag
               /\ \A d \in Configs \ {c} :
                      vpnclient_set(d, State') = vpnclient_set(d, State)

\* C3: after post_clear on a configuration none of its VpnClient rows is left,
\* whichever templates or callers created them, and the rows of the other
\* configurations are the same as before.
C3_ClearRemovesAll == [][ClearRemovesAll]_vars

\* c1 was cleared while c2 keeps a row and a row-less template t2 stays in
\* no table
C3_Witness ==
    /\ last.op = "clear" /\ last.cfg = "c1" /\ last.err = NoError
    /\ vpnclient_set("c1", State) = EmptyBag
    /\ vpnclient_set("c2", State) # EmptyBag

\* the backend refuses the document of these templates and the configuration
Refused(c, templates) ==
    clean_netjsonconfig_backend(get_backend_instance(c, templates, State)) # NoError

PreAddRejects ==
    \A c \in Configs : \A objs \in PkSets(c) :
        (/\ last'.op = "add" /\ last'.cfg = c
         /\ Refused(c, attached[c] \cup objs)
         /\ Attach(c, objs))
            => /\ last'.err.type = "ValidationError"
               /\ UNCHANGED <<attached, vpnclients, certs, status, dbStatus>>

\* C6: on pre_add, when the templates already attached together with the
\* candidates and the configuration's own fragment do not validate, add() is
\* refused with a validation error and no template is attached, no VpnClient
\* row or certificate is created and the status stays as it was.
C6_PreAddRejectsResultingSet == [][PreAddRejects]_vars

ConflictMessage ==
    "There is a conflict with the specified templates. Invalid configuration"

ConflictError(field) ==
    \A c \in Configs : \A objs \in PkSets(c) :
        (/\ last'.op = "add" /\ last'.cfg = c
         /\ objs \ attached[c] # {}
         /\ Refused(c, objs \ attached[c])
         /\ Attach(c, objs))
            => last'.err = ValidationError(field, ConflictMessage)

\* C7 as stated: when the templates and the configuration do not validate, the
\* error raised carries the backend's message behind the conflict prefix and
\* is a validation error of the templates field.
C7_ScopedToTemplates == [][ConflictError("templates")]_vars

\* C7, amended: when the templates and the configuration do not validate, the
\* error raised carries the backend's message behind the conflict prefix and
\* is a validation error of no field.
C7_ConflictErrorUnscoped == [][ConflictError(NoField)]_vars

\* an add() was refused with the conflict error
C7_Witness ==
    /\ last.op = "add"
    /\ last.err = ValidationError(NoField, ConflictMessage)

-----------------------------------------------------------------------------
(* The status of one configuration: edits, clean, save, the explicit marks and
   the template-set operations *)

StatusConfigs == {"c1"}

\* the fragments a caller gives the configuration
Documents == {EmptyDoc, {<<"proto", "tcp">>}}

StatusPkSets == {{"t1"}, {"t2"}, {"t1", "t2"}}

NextStatus ==
    \/ \E c \in StatusConfigs : Save(c)
    \/ \E c \in StatusConfigs, b \in Backends, d \in Documents : Edit(c, b, d)
    \/ \E c \in StatusConfigs : Clean(c)
    \/ \E c \in StatusConfigs, s \in STATUS, do_save \in BOOLEAN :
           SetStatus(c, s, do_save)
    \/ \E c \in StatusConfigs, objs \in StatusPkSets : Attach(c, objs)
    \/ \E c \in StatusConfigs, objs \in StatusPkSets : Detach(c, objs)
    \/ \E c \in StatusConfigs : Clear(c)

SpecStatus == Init /\ [][NextStatus]_vars

Differs(c) == backend[c] # dbBackend[c] \/ config[c] # dbConfig[c]

CleanForcesModified ==
    \A c \in Configs :
        (last'.op = "clean" /\ last'.cfg = c)
            => status'[c] = IF ~adding[c] /\ Differs(c) THEN "modified"
                            ELSE status[c]

\* C4: clean() of a stored configuration sets the status to modified when
\* backend or config differs from the stored value, whatever the status was;
\* clean() of a configuration that is not stored yet, or whose two fields are
\* as stored, leaves the status as it was.
C4_CleanForcesModified == [][CleanForcesModified]_vars

\* clean() took a changed, stored configuration from running to modified
C4_Witness ==
    /\ last.op = "clean" /\ last.cfg = "c1" /\ last.was = "running"
    /\ ~adding["c1"] /\ Differs("c1")
    /\ status["c1"] = "modified"

IsConflict(err) == err = ValidationError(NoField, ConflictMessage)

StatusAfterEvents ==
    \A c \in Configs :
        /\ (/\ last'.cfg = c
            /\ \/ last'.op \in {"add", "remove", "clear"}
               \/ /\ last'.op \in {"save", "set_status"}
                  /\ adding[c] /\ ~adding'[c]
                  /\ get_default_templates(c, State) # {}
            /\ ~IsConflict(last'.err))
               => /\ status'[c] = "modified"
                  /\ (last'.err = NoError /\ last'.op \in {"add", "remove", "clear"}
                        /\ status[c] # "modified")
                         => dbStatus'[c] = "modified"
        /\ (last'.cfg = c /\ last'.op = "add" /\ IsConflict(last'.err))
               => status'[c] = status[c] /\ dbStatus'[c] = dbStatus[c]
        /\ \A action \in {"pre_add", "pre_remove", "pre_clear"} :
               templates_changed(action, c, State) = Result(State, NoError)

\* C5: after post_add, post_remove or post_clear on the templates of a
\* configuration its status is modified, whether it was running, error or
\* modified before (and the handler stores the change it makes); an event of
\* another kind, such as pre_add, leaves the status as it was.
C5_EventsForceModified == [][StatusAfterEvents]_vars

\* clear() took a running configuration to modified, in the row too
C5_Witness ==
    /\ last.op = "clear" /\ last.cfg = "c1" /\ last.was = "running"
    /\ last.err = NoError
    /\ status["c1"] = "modified" /\ dbStatus["c1"] = "modified"

-----------------------------------------------------------------------------
(* The context passed to netjsonconfig *)

\* dict.update
Update(c, d) ==
    [k \in DOMAIN c \cup DOMAIN d |-> IF k \in DOMAIN d THEN d[k] ELSE c[k]]

\* AbstractConfig._has_device
_has_device(c) == device[c] # NoDevice

\* AbstractConfig.get_context
AbstractConfig_get_context(c) ==
    LET c0 == IF _has_device(c)
              THEN [k \in {"id", "key", "name", "mac_address"} |-> device[c][k]]
              ELSE <<>>
    IN  Update(c0, CONTEXT)

\* variant: the names do not carry the pk of the vpn
_get_auto_context_keys_no_pk(v) ==
    [ca_path |-> "ca_path", ca_contents |-> "ca_contents",
     cert_path |-> "cert_path", cert_contents |-> "cert_contents",
     key_path |-> "key_path", key_contents |-> "key_contents"]

\* BaseVpn._get_auto_context_keys
_get_auto_context_keys(v) ==
    LET pk == VpnTable[v].hex
    IN  [ca_path |-> "ca_path_" \o pk,
         ca_contents |-> "ca_contents_" \o pk,
         cert_path |-> "cert_path_" \o pk,
         cert_contents |-> "cert_contents_" \o pk,
         key_path |-> "key_path_" \o pk,
         key_contents |-> "key_contents_" \o pk]

\* the body of the loop of TemplatesVpnMixin.get_context
context_of(vpnclient, c) ==
    LET vpn == vpnclient.vpn
        vpn_id == VpnTable[vpn].hex
        context_keys == _get_auto_context_keys(vpn)
        ca == VpnTable[vpn].ca
        cert == vpnclient.cert
        ca_filename == "ca-" \o ca.pk \o "-" \o ca.common_name \o ".pem"
        ca_path == CERT_PATH \o "/" \o ca_filename
        c1 == Update(c, (context_keys.ca_path :> ca_path)
                        @@ (context_keys.ca_contents :> ca.certificate))
    IN  IF cert # NoCert
        THEN LET cert_path == CERT_PATH \o "/" \o "client-" \o vpn_id \o ".pem"
                 key_path == CERT_PATH \o "/" \o "key-" \o vpn_id \o ".pem"
             IN  Update(c1, (context_keys.cert_path :> cert_path)
                            @@ (context_keys.cert_contents :> <<"certificate", cert>>)
                            @@ (context_keys.key_path :> key_path)
                            @@ (context_keys.key_contents :> <<"private_key", cert>>))
        ELSE c1

RECURSIVE context_loop(_, _)
context_loop(clients, c) ==
    IF clients = {} THEN c
    ELSE LET vpnclient == CHOOSE b \in clients : TRUE
         IN  context_loop(clients \ {vpnclient}, context_of(vpnclient, c))

\* TemplatesVpnMixin.get_context
get_context(c, st) ==
    context_loop(DOMAIN vpnclient_set(c, st), AbstractConfig_get_context(c))

\* instance.get_context()
GetContext(c) ==
    /\ context' = get_context(c, State)
    /\ Done("get_context", c, NoError)
    /\ UNCHANGED <<adding, status, backend, config, dbStatus, dbBackend, dbConfig,
                   attached, vpnclients, certs, device, CONTEXT, tx,
                   teardown,
                   issuing,
                   vpns,
                   servercerts>>

\* the default mappings a deployment configures
ContextSettings ==
    {<<>>, ("custom" :> "x"), ("name" :> "global" @@ "custom" :> "x")}

\* the rows a configuration may have: per vpn none, one without a certificate
\* or one with the certificate k
RowChoices(c, v, k) ==
    {EmptyBag,
     One([config |-> c, vpn |-> v, auto_cert |-> FALSE, cert |-> NoCert]),
     One([config |-> c, vpn |-> v, auto_cert |-> TRUE, cert |-> k])}

\* c1 is stored, with a device and any rows; c2 is stored likewise, or is a new
\* instance that has no device yet
InitContext ==
    /\ status = [c \in Configs |-> "modified"]
    /\ backend = InitialBackend
    /\ config = InitialConfig
    /\ dbStatus = [c \in Configs |-> "modified"]
    /\ dbBackend = InitialBackend
    /\ dbConfig = InitialConfig
    /\ attached = [c \in Configs |-> {}]
    /\ \E c2_adding \in BOOLEAN :
           /\ adding = [c \in Configs |-> c = "c2" /\ c2_adding]
           /\ device = [c \in Configs |-> IF adding[c] THEN NoDevice
                                          ELSE DeviceTable[c]]
           /\ \E r1 \in RowChoices("c1", "v1", 1), r2 \in RowChoices("c1", "v2", 2),
                 r3 \in RowChoices("c2", "v1", 3) :
                  vpnclients = IF c2_adding THEN r1 (+) r2 ELSE r1 (+) r2 (+) r3
    /\ certs = {b.cert : b \in DOMAIN vpnclients} \ {NoCert}
    /\ CONTEXT \in ContextSettings
    /\ context = <<>>
    /\ tx = [p \in Procs |-> Idle]
    /\ servercerts = {StoredCert(v) : v \in Vpns}
    /\ vpns = [v \in Vpns |-> StoredVpn(v)]
    /\ issuing = TRUE
    /\ teardown = NoTeardown
    /\ last = [op |-> "init", cfg |-> None, was |-> None, err |-> NoError]

NextContext == \E c \in Configs : GetContext(c)

SpecContext == InitContext /\ [][NextContext]_vars

\* the name the specification gives a per-vpn variable
VariableName(name, v) == name \o "_" \o VpnTable[v].hex

CertVariables == {"cert_path", "cert_contents", "key_path", "key_contents"}

VpnVariables(v) ==
    {VariableName(n, v) : n \in {"ca_path", "ca_contents"} \cup CertVariables}

ContextKeys ==
    last.op = "get_context" =>
        LET rows == DOMAIN vpnclient_set(last.cfg, State)
            derived == DOMAIN context \ DOMAIN AbstractConfig_get_context(last.cfg)
        IN  /\ \A b \in rows :
                   /\ VariableName("ca_path", b.vpn) \in DOMAIN context
                   /\ VariableName("ca_contents", b.vpn) \in DOMAIN context
                   /\ \A n \in CertVariables :
                          VariableName(n, b.vpn) \in DOMAIN context
                              <=> b.cert # NoCert
            /\ \A v, w \in Vpns : v # w => VpnVariables(v) \cap VpnVariables(w) = {}
            /\ derived \subseteq UNION {VpnVariables(b.vpn) : b \in rows}
            /\ Cardinality(derived) =
                   2 * Cardinality(rows)
                       + 4 * Cardinality({b \in rows : b.cert # NoCert})
            /\ Cardinality(derived) <= 6 * Cardinality(rows)

\* C8: the context of a configuration holds ca_path_<vpnid> and
\* ca_contents_<vpnid> for each of its VpnClient rows, holds cert_path_,
\* cert_contents_, key_path_ and key_contents_<vpnid> exactly for the rows that
\* have a certificate, and the names of two vpns never coincide, so N rows give
\* at most 6N vpn variables.
C8_ContextKeys == ContextKeys

\* the context of c1 with two rows, one with and one without a certificate
C8_Witness ==
    /\ last.op = "get_context" /\ last.cfg = "c1"
    /\ Cardinality(DOMAIN vpnclient_set("c1", State)) = 2
    /\ \E b \in DOMAIN vpnclient_set("c1", State) : b.cert = NoCert
    /\ "cert_path_0a1b" \in DOMAIN context
    /\ "cert_path_0a1c" \notin DOMAIN context
    /\ "ca_path_0a1c" \in DOMAIN context

-----------------------------------------------------------------------------
(* Two requests that run instance.templates.add(template) at the same time.
   Each add() is one database transaction (transaction.atomic in the related
   manager): what it writes is seen by the other request only after the
   commit, an insert that would clash with a row the other request has
   written and not committed waits for that request to end, and a failed
   insert rolls back everything the transaction wrote. *)

Active(p) == tx[p].pc \notin {"idle", "done"}

\* rows written by the open transaction of p
OwnLinks(p) == IF tx[p].link THEN {tx[p].tpl} ELSE {}

OwnRows(p) == IF tx[p].inserted THEN One(tx[p].client) ELSE EmptyBag

OwnCerts(p) ==
    IF Active(p) /\ tx[p].client.cert # NoCert THEN {tx[p].client.cert} ELSE {}

\* what the request p reads: the committed rows and its own
View(p) ==
    IF tx[p].cfg = None THEN State
    ELSE [State EXCEPT !.attached[tx[p].cfg] = @ \cup OwnLinks(p),
                       !.vpnclients = @ (+) OwnRows(p),
                       !.certs = @ \cup OwnCerts(p)]

\* what the other requests have written and not committed
Pending(p) ==
    [State EXCEPT
        !.vpnclients = SetToBag({tx[q].client : q \in {r \in Procs \ {p} :
                                                       tx[r].inserted}}),
        !.certs = @ \cup UNION {OwnCerts(q) : q \in Procs}]

Steps(p, t) ==
    /\ tx' = [tx EXCEPT ![p] = t]
    /\ last' = [op |-> "add", cfg |-> t.cfg, was |-> status[t.cfg], err |-> t.err]
    /\ UNCHANGED <<adding, status, backend, config, dbStatus, dbBackend,
                   dbConfig, attached, vpnclients, certs, device, CONTEXT,
                   context,
                   teardown,
                   issuing,
                   vpns,
                   servercerts>>

\* the exception leaves transaction.atomic: nothing p wrote is kept
Abort(p, err) ==
    Steps(p, [tx[p] EXCEPT !.pc = "done", !.err = err, !.link = FALSE,
                           !.inserted = FALSE])

\* add(): the ids that are not attached yet are the pk_set of the signals;
\* pre_add runs clean_templates
Begin(p, c, t) ==
    /\ tx[p].pc = "idle"
    /\ ~adding[c]
    /\ LET pk_set == {t} \ attached[c]
           began == [tx[p] EXCEPT !.cfg = c, !.tpl = t, !.pk_set = pk_set]
           err == clean_templates("pre_add", c, pk_set, State)
       IN  IF pk_set = {} THEN Steps(p, [began EXCEPT !.pc = "done"])
           ELSE IF err # NoError THEN Steps(p, [began EXCEPT !.pc = "done",
                                                             !.err = err])
           ELSE Steps(p, [began EXCEPT !.pc = "link"])

\* add(): the row of the templates relation, unique on (config, template);
\* post_add then runs templates_changed, which has nothing to write here
Link(p) ==
    /\ tx[p].pc = "link"
    /\ \A q \in Procs \ {p} : ~(tx[q].cfg = tx[p].cfg /\ tx[p].tpl \in OwnLinks(q))
    /\ templates_changed("post_add", tx[p].cfg, View(p)) = Result(View(p), NoError)
    /\ IF tx[p].tpl \in attached[tx[p].cfg] THEN Abort(p, IntegrityError)
       ELSE Steps(p, [tx[p] EXCEPT !.pc = "check", !.link = TRUE])

\* manage_vpn_clients, post_add: client = VpnClient(...); client.full_clean()
Check(p) ==
    /\ tx[p].pc = "check"
    /\ LET template == TemplateTable[tx[p].tpl]
           client == VpnClient(tx[p].cfg, template.vpn, template.auto_cert)
           err == full_clean(client, View(p))
       IN  IF err # NoError THEN Abort(p, err)
           ELSE Steps(p, [tx[p] EXCEPT !.pc = "issue", !.client = client])

\* VpnClient.save(): if self.auto_cert: self._auto_create_cert(...)
Issue(p) ==
    /\ tx[p].pc = "issue"
    /\ LET issued == IF tx[p].client.auto_cert
                     THEN _auto_create_cert(tx[p].client, Pending(p))
                     ELSE [st |-> State, err |-> NoError, client |-> tx[p].client]
       IN  IF issued.err # NoError THEN Abort(p, issued.err)
           ELSE Steps(p, [tx[p] EXCEPT !.pc = "insert", !.client = issued.client])

\* VpnClient.save(): super().save(), the insert
Insert(p) ==
    /\ tx[p].pc = "insert"
    /\ unique_together(tx[p].client, Pending(p)) = {}
    /\ IF Model_save(tx[p].client, View(p)).err # NoError
       THEN Abort(p, IntegrityError)
       ELSE Steps(p, [tx[p] EXCEPT !.pc = "commit", !.inserted = TRUE])

\* add() returns: the transaction commits
Commit(p) ==
    /\ tx[p].pc = "commit"
    /\ attached' = View(p).attached
    /\ vpnclients' = View(p).vpnclients
    /\ certs' = View(p).certs
    /\ tx' = [tx EXCEPT ![p] = [@ EXCEPT !.pc = "done", !.link = FALSE,
                                         !.inserted = FALSE]]
    /\ last' = [op |-> "add", cfg |-> tx[p].cfg, was |-> status[tx[p].cfg],
                err |-> NoError]
    /\ UNCHANGED <<adding, status, backend, config, dbStatus, dbBackend,
                   dbConfig, device, CONTEXT, context,
                   teardown,
                   issuing,
                   vpns,
                   servercerts>>

\* the templates of vpn v1 that have auto_cert set
RaceTemplates == {"t1", "t5"}

\* both configurations are stored and have no templates yet
InitRace ==
    /\ adding = [c \in Configs |-> FALSE]
    /\ status = [c \in Configs |-> "modified"]
    /\ backend = InitialBackend
    /\ config = InitialConfig
    /\ dbStatus = [c \in Configs |-> "modified"]
    /\ dbBackend = InitialBackend
    /\ dbConfig = InitialConfig
    /\ attached = [c \in Configs |-> {}]
    /\ vpnclients = EmptyBag
    /\ certs = {}
    /\ device = [c \in Configs |-> DeviceTable[c]]
    /\ CONTEXT = <<>>
    /\ context = <<>>
    /\ tx = [p \in Procs |-> Idle]
    /\ servercerts = {StoredCert(v) : v \in Vpns}
    /\ vpns = [v \in Vpns |-> StoredVpn(v)]
    /\ issuing = TRUE
    /\ teardown = NoTeardown
    /\ last = [op |-> "init", cfg |-> None, was |-> None, err |-> NoError]

NextRace ==
    \E p \in Procs :
        \/ \E c \in Configs : \E t \in RaceTemplates : Begin(p, c, t)
        \/ Link(p)
        \/ Check(p)
        \/ Issue(p)
        \/ Insert(p)
        \/ Commit(p)

SpecRace == InitRace /\ [][NextRace]_vars

\* both requests sent post_add for the same (config, vpn) and have ended
SamePair ==
    /\ \A p \in Procs : tx[p].pc = "done" /\ tx[p].pk_set # {}
    /\ \E c \in Configs, v \in Vpns :
           \A p \in Procs : tx[p].cfg = c /\ TemplateTable[tx[p].tpl].vpn = v
                                /\ TemplateTable[tx[p].tpl].auto_cert

Conflict == {ValidationError("__all__", UniqueMessage), IntegrityError}

OneWins ==
    SamePair =>
        /\ BagCardinality(vpnclients) = 1
        /\ \E w \in Procs :
               /\ tx[w].err = NoError
               /\ tx[w].client \in DOMAIN vpnclients
               /\ certs = {tx[w].client.cert}
               /\ \A l \in Procs \ {w} : tx[l].err \in Conflict

-----------------------------------------------------------------------------
(* The certificate of a VpnClient row over the life of its configuration *)

\* the configuration that is created, given templates and deleted
OwnerConfigs == {"c1"}

NextOwner ==
    \/ \E c \in OwnerConfigs : Save(c)
    \/ \E c \in OwnerConfigs : Delete(c)
    \/ \E c \in OwnerConfigs : \E objs \in PkSets(c) : Attach(c, objs)
    \/ \E c \in OwnerConfigs : \E objs \in PkSets(c) : Detach(c, objs)
    \/ \E c \in OwnerConfigs : Clear(c)
    \/ \E c \in OwnerConfigs, v \in Vpns, a \in BOOLEAN : CreateClient(c, v, a)
    \/ \E row \in Rows(State) : DeleteClient(row)

SpecOwner == Init /\ [][NextOwner]_vars

\* the rows that reference the certificate k
Owners(k) == {b \in DOMAIN vpnclients : b.cert = k}

\* C10: every stored VpnClient row with auto_cert references an existing
\* certificate that no other row references, every row without auto_cert
\* references no certificate, and no certificate created for a row is left
\* once the row is gone.
C10_CertOwnedByBinding ==
    /\ \A b \in DOMAIN vpnclients :
           IF b.auto_cert
           THEN /\ b.cert \in certs
                /\ vpnclients[b] = 1
                /\ Owners(b.cert) = {b}
           ELSE b.cert = NoCert
    /\ \A k \in certs : Owners(k) # {}

-----------------------------------------------------------------------------
(* VpnClient rows a caller creates, saves again and deletes *)

\* the configuration whose rows are saved by hand
ClientConfigs == {"c1"}

NextClient ==
    \/ \E c \in ClientConfigs : Save(c)
    \/ \E c \in ClientConfigs, v \in Vpns, a \in BOOLEAN : CreateClient(c, v, a)
    \/ \E c \in ClientConfigs, v \in Vpns, a \in BOOLEAN : SaveClient(c, v, a)
    \/ \E row \in Rows(State) : ResaveClient(row)
    \/ \E row \in Rows(State) : DeleteClient(row)

SpecClient == Init /\ [][NextClient]_vars

\* a save creates a certificate only for a row with auto_cert and no certificate
IssuesOnlyWhenMissing ==
    /\ \A row \in Rows(State) :
           (last'.op = "client_resave" /\ ResaveClient(row))
               => IF row.auto_cert /\ row.cert = NoCert
                  THEN Cardinality(certs' \ certs) = 1
                  ELSE certs' = certs
    /\ \A c \in ClientConfigs, v \in Vpns, a \in BOOLEAN :
           (last'.op = "client_save" /\ SaveClient(c, v, a))
               => IF a THEN Cardinality(certs' \ certs) <= 1 ELSE certs' = certs

\* C11: saving a VpnClient row creates a certificate only when auto_cert is set
\* and the row has no certificate; saving a row that has its certificate creates
\* none, so no row ever has more than one certificate created for it.
C11_IssuesAtMostOnce == [][IssuesOnlyWhenMissing]_vars

-----------------------------------------------------------------------------
(* VpnClient.delete(), statement by statement *)

\* delete = self.auto_cert; super(VpnClient, self).delete()
DeleteRow(row) ==
    /\ teardown.pc = "idle"
    /\ row \in Rows(State)
    /\ teardown' = [pc |-> "cert", row |-> row, delete |-> row.auto_cert]
    /\ vpnclients' = Model_delete(row, State).vpnclients
    /\ certs' = Model_delete(row, State).certs
    /\ last' = [op |-> "client_delete_row", cfg |-> row.config,
                was |-> status[row.config], err |-> NoError]
    /\ UNCHANGED <<adding, status, backend, config, dbStatus, dbBackend,
                   dbConfig, attached, device, CONTEXT, context, tx,
                   issuing,
                   vpns,
                   servercerts>>

\* if delete: self.cert.delete()
DeleteCert ==
    /\ teardown.pc = "cert"
    /\ teardown' = NoTeardown
    /\ LET row == teardown.row
       IN  IF ~teardown.delete
           THEN /\ UNCHANGED <<vpnclients, certs>>
                /\ Done("client_delete", row.config, NoError)
           ELSE IF row.cert = NoCert
           THEN /\ UNCHANGED <<vpnclients, certs>>
                /\ Done("client_delete", row.config, AttributeError)
           ELSE /\ vpnclients' = Cert_delete(row.cert, State).vpnclients
                /\ certs' = Cert_delete(row.cert, State).certs
                /\ Done("client_delete", row.config, NoError)
    /\ UNCHANGED <<adding, status, backend, config, dbStatus, dbBackend,
                   dbConfig, attached, device, CONTEXT, context, tx,
                   issuing,
                   vpns,
                   servercerts>>

\* cert = Cert(...); cert.save(); VpnClient(config=c, vpn=v, cert=cert).save()
\* by a caller: a row without auto_cert that was given a certificate
AssignClient(c, v) ==
    /\ ~adding[c]
    /\ LET issued == _auto_create_cert(VpnClient(c, v, FALSE), State)
       IN  /\ issued.err = NoError
           /\ Returns("client_assign", c, Model_save(issued.client, issued.st))

\* the caller's next call starts when delete() has returned
Returned == teardown.pc = "idle"

NextTeardown ==
    \/ \E c \in ClientConfigs : Returned /\ Save(c)
    \/ \E c \in ClientConfigs, v \in Vpns, a \in BOOLEAN :
           Returned /\ CreateClient(c, v, a)
    \/ \E c \in ClientConfigs, v \in Vpns : Returned /\ AssignClient(c, v)
    \/ \E row \in Rows(State) : DeleteRow(row)
    \/ DeleteCert

SpecTeardown == Init /\ [][NextTeardown]_vars

\* no stored row references a certificate that is not stored
NoDangling ==
    \A b \in DOMAIN vpnclients : b.cert # NoCert => b.cert \in certs

\* the row goes first and the certificate stays; then the certificate goes,
\* and only that of a row with auto_cert; the two statements together do what
\* VpnClient.delete() does
RowThenCert ==
    /\ (teardown.pc = "idle" /\ teardown'.pc = "cert")
           => /\ teardown'.row \in DOMAIN vpnclients
              /\ vpnclients' = vpnclients (-) One(teardown'.row)
              /\ certs' = certs
    /\ (teardown.pc = "cert" /\ teardown'.pc = "idle")
           => /\ teardown.row \notin DOMAIN vpnclients
              /\ vpnclients' = vpnclients
              /\ certs' = IF teardown.row.auto_cert
                          THEN certs \ {teardown.row.cert} ELSE certs
              /\ LET r == VpnClient_delete(teardown.row,
                              [State EXCEPT !.vpnclients = @ (+) One(teardown.row)])
                 IN  /\ vpnclients' = r.st.vpnclients
                     /\ certs' = r.st.certs
                     /\ last'.err = r.err

\* C12: VpnClient.delete() removes the row first and deletes the certificate
\* afterwards, and deletes it only for a row with auto_cert; in no state in
\* between does a stored row reference a certificate that is gone.
C12_RowThenCert == []NoDangling /\ [][RowThenCert]_vars

\* the row with auto_cert is gone and its certificate is still stored
C12_Witness ==
    /\ teardown.pc = "cert"
    /\ teardown.row.auto_cert
    /\ teardown.row.cert \in certs
    /\ teardown.row \notin DOMAIN vpnclients
    /\ \E b \in DOMAIN vpnclients : ~b.auto_cert /\ b.cert # NoCert

-----------------------------------------------------------------------------
(* Certificate creation that fails *)

\* cert.save() starts or stops failing
IssuerTurns ==
    /\ issuing' = ~issuing
    /\ last' = [op |-> "issuer", cfg |-> None, was |-> None, err |-> NoError]
    /\ UNCHANGED <<adding, status, backend, config, dbStatus, dbBackend,
                   dbConfig, attached, vpnclients, certs, device, CONTEXT,
                   context, tx, teardown,
                   vpns,
                   servercerts>>

\* the configuration that is given templates while certificates fail
IssueConfigs == {"c1"}

IssuePkSets == {{"t1"}, {"t2"}, {"t3"}, {"t4"}, {"t2", "t3"}, {"t3", "t4"}}

NextIssue ==
    \/ IssuerTurns
    \/ \E c \in IssueConfigs : Save(c)
    \/ \E c \in IssueConfigs : \E objs \in IssuePkSets : Attach(c, objs)
    \/ \E c \in IssueConfigs : \E objs \in IssuePkSets : Detach(c, objs)

SpecIssue == Init /\ [][NextIssue]_vars

\* the templates of an add() that make post_add create a certificate
NeedCert(new_ids) ==
    {t \in new_ids : TemplateTable[t].type = "vpn" /\ TemplateTable[t].auto_cert}

\* an add() that reaches the creation of a certificate while cert.save() fails
\* raises that failure and stores no row: neither the one that was being
\* created nor any other
FailedIssueStoresNothing ==
    \A c \in IssueConfigs : \A objs \in IssuePkSets :
        (/\ last'.op = "add" /\ last'.cfg = c
         /\ ~issuing
         /\ NeedCert(objs \ attached[c]) # {}
         /\ ~Refused(c, objs \ attached[c])
         /\ ~Clashes(c, objs \ attached[c])
         /\ Attach(c, objs))
            => /\ last'.err = CertError
               /\ vpnclients' = vpnclients
               /\ certs' = certs
               /\ \A t \in NeedCert(objs \ attached[c]) :
                      PairCount(vpnclients', c, TemplateTable[t].vpn) = 0

\* C13: when the certificate cannot be created while post_add creates a row
\* with auto_cert, the failure reaches the caller of add() and no VpnClient row
\* for that (config, vpn) is stored.
C13_FailedIssueStoresNothing == [][FailedIssueStoresNothing]_vars

\* an add() of a template with auto_cert, after one without, has failed on the
\* certificate
C13_Witness ==
    /\ last.op = "add" /\ last.err = CertError
    /\ ~issuing
    /\ "t2" \in attached["c1"]
    /\ "t3" \notin attached["c1"]
    /\ PairCount(vpnclients, "c1", "v2") = 0

-----------------------------------------------------------------------------
(* Who sets running and error *)

Reported == {"running", "error"}

\* the status of the instance turns to running or error only in a set_status
\* call on it; the stored status turns to running or error only in such a call
\* or in a save of an instance that already has that status
OnlyExplicit ==
    \A c \in StatusConfigs :
        /\ (status'[c] \in Reported /\ status'[c] # status[c])
               => /\ last'.op = "set_status" /\ last'.cfg = c
                  /\ \E do_save \in BOOLEAN : SetStatus(c, status'[c], do_save)
        /\ (dbStatus'[c] \in Reported /\ dbStatus'[c] # dbStatus[c])
               => \/ last'.op = "set_status" /\ last'.cfg = c
                  \/ last'.op = "save" /\ last'.cfg = c /\ status[c] = dbStatus'[c]

\* C14: the status becomes running only through set_status_running and error
\* only through set_status_error; clean, save with default templates, the
\* pre_add validation and the post_add, post_remove and post_clear handlers never
\* set running or error.
C14_OnlyExplicit == [][OnlyExplicit]_vars

\* a post_clear handler has run on a configuration that was in error
C14_Witness ==
    /\ last.op = "clear" /\ last.cfg = "c1" /\ last.err = NoError
    /\ last.was = "error"
    /\ status["c1"] = "modified"

-----------------------------------------------------------------------------
(* set_status_modified, set_status_running, set_status_error *)

\* the call raises nothing and leaves the instance with the status asked for;
\* the stored status is the one asked for with save, and untouched without
Unconditional ==
    \A c \in StatusConfigs, s \in STATUS, do_save \in BOOLEAN :
        (last'.op = "set_status" /\ last'.cfg = c /\ SetStatus(c, s, do_save))
            => /\ last'.err = NoError
               /\ status'[c] = s
               /\ IF do_save THEN dbStatus'[c] = s /\ ~adding'[c]
                  ELSE dbStatus'[c] = dbStatus[c] /\ adding'[c] = adding[c]

\* C15: set_status_modified, set_status_running and set_status_error succeed
\* from every status and leave the status of the instance equal to their
\* target; with save=False the stored row is untouched, with save=True the new
\* status is stored.
C15_Unconditional == [][Unconditional]_vars

-----------------------------------------------------------------------------
(* The first save and the default templates *)

\* the backends a caller chooses from; no template is a default of the last
NewBackends == {"openwrt", "openwisp", "raspbian"}

\* the fragments a caller gives the configuration; the last conflicts with the
\* default template of openwisp
NewDocuments == {EmptyDoc, {<<"proto", "udp">>}}

NextDefaults ==
    \/ \E c \in StatusConfigs : Save(c)
    \/ \E c \in StatusConfigs, b \in NewBackends, d \in NewDocuments : Edit(c, b, d)
    \/ \E c \in StatusConfigs, s \in STATUS, do_save \in BOOLEAN :
           SetStatus(c, s, do_save)
    \/ \E c \in StatusConfigs : Clear(c)

SpecDefaults == Init /\ [][NextDefaults]_vars

\* the templates the first save is to attach
Defaults(c) ==
    {t \in Templates : TemplateTable[t].default
                           /\ TemplateTable[t].backend = backend[c]}

\* the rows post_add creates for a set of templates
RowsFor(c, templates) ==
    {<<c, TemplateTable[t].vpn>> : t \in {x \in templates :
                                              TemplateTable[x].type = "vpn"}}

Pairs(clients) == {<<b.config, b.vpn>> : b \in DOMAIN clients}

FirstSaveAttaches(c) ==
    (last'.op = "save" /\ last'.cfg = c /\ adding[c] /\ Save(c))
        => /\ attached'[c] = Defaults(c)
           /\ Pairs(vpnclients') = RowsFor(c, Defaults(c))

LaterSaveAttachesNone(c) ==
    (last'.op = "save" /\ last'.cfg = c /\ ~adding[c] /\ Save(c))
        => /\ attached'[c] = attached[c]
           /\ vpnclients' = vpnclients
           /\ status'[c] = status[c]

\* C16 as stated: the first save attaches exactly the default templates of the
\* configuration's backend, with the reactions of an add(), and leaves the
\* status modified; a later save attaches nothing.
C16_FirstSaveAttachesDefaults ==
    [][\A c \in StatusConfigs :
           /\ FirstSaveAttaches(c)
           /\ (last'.op = "save" /\ last'.cfg = c /\ adding[c] /\ Save(c))
                  => status'[c] = "modified"
           /\ LaterSaveAttachesNone(c)]_vars

-----------------------------------------------------------------------------
(* The device and the default variables in the context *)

DeviceKeys == {"id", "key", "name", "mac_address"}

\* C17: the context of a configuration that has a device maps id, key, name
\* and mac_address to the values of the device and holds every key of
\* app_settings.CONTEXT; for a configuration without a device the four keys are
\* not added.
C17_DeviceAndDefaults ==
    last.op = "get_context" =>
        LET c == last.cfg
        IN  /\ DOMAIN CONTEXT \subseteq DOMAIN context
            /\ IF device[c] # NoDevice
               THEN \A k \in DeviceKeys :
                        k \in DOMAIN context /\ context[k] = device[c][k]
               ELSE \A k \in DeviceKeys :
                        k \in DOMAIN context
                            => k \in DOMAIN CONTEXT /\ context[k] = CONTEXT[k]

-----------------------------------------------------------------------------
(* BaseVpn: models/vpn.py *)

MaxServerCerts == 2

ServerCertIds == 1..MaxServerCerts

\* everything a Vpn operation leaves alone
NotVpn == <<adding, status, backend, config, dbStatus, dbBackend, dbConfig,
            attached, vpnclients, certs, device, CONTEXT, context, tx,
            teardown, issuing>>

NoRow == [ca |-> None, cert |-> NoCert]

\* Vpn(name=..., ca=ca): an instance that was never saved
NewVpn(ca) == [adding |-> TRUE, ca |-> ca, cert |-> NoCert, row |-> NoRow]

\* django.utils.text.slugify on the names in use
slugify(name) == IF name = "Office VPN" THEN "office-vpn" ELSE name

\* the row of the certificate with this id
CertRow(k) == CHOOSE x \in servercerts : x.id = k

FreshServerCert ==
    CHOOSE k \in ServerCertIds \ {x.id : x \in servercerts} :
        \A j \in ServerCertIds \ {x.id : x \in servercerts} : k <= j

\* CPython keeps one object for each of the integers -5..256
SmallInts == -5..256

\* the results `a is b` can have for two integer primary keys: unequal values
\* are never the same object, equal small values always are, and equal values
\* beyond the small integers are the same object only when both were read
\* from the same model instance
is(a, b) ==
    IF a # b THEN {FALSE}
    ELSE IF a \in SmallInts THEN {TRUE} ELSE {TRUE, FALSE}

CaMismatch == "The selected certificate must match the selected CA."

\* BaseVpn.clean(): `same` is the result of self.cert.ca.pk is self.ca.pk
BaseVpn_clean(v, same) ==
    IF vpns[v].cert # NoCert /\ ~same
    THEN ValidationError("cert", CaMismatch)
    ELSE NoError

\* BaseVpn._auto_create_cert(): the certificate it builds and saves
BaseVpn__auto_create_cert(v) ==
    [id |-> FreshServerCert, ca |-> vpns[v].ca,
     common_name |-> slugify(VpnName[v]), nsCertType |-> "server"]

\* variant: save() issues a certificate whether or not one is set
BaseVpn_save_always_issues(v) ==
    /\ issuing
    /\ ServerCertIds \ {x.id : x \in servercerts} # {}
    /\ LET cert == BaseVpn__auto_create_cert(v)
       IN /\ servercerts' = servercerts \cup {cert}
          /\ vpns' = [vpns EXCEPT ![v] =
                        [adding |-> FALSE, ca |-> @.ca, cert |-> cert.id,
                         row |-> [ca |-> @.ca, cert |-> cert.id]]]
          /\ last' = [op |-> "vpn.save", cfg |-> v, was |-> None,
                      err |-> NoError]

\* BaseVpn.save()
BaseVpn_save(v) ==
    IF vpns[v].cert = NoCert
    THEN IF ~issuing
         THEN /\ last' = [op |-> "vpn.save", cfg |-> v, was |-> None,
                          err |-> CertError]
              /\ UNCHANGED <<vpns, servercerts>>
         ELSE /\ ServerCertIds \ {x.id : x \in servercerts} # {}
              /\ LET cert == BaseVpn__auto_create_cert(v)
                 IN /\ servercerts' = servercerts \cup {cert}
                    /\ vpns' = [vpns EXCEPT ![v] =
                                  [adding |-> FALSE, ca |-> @.ca,
                                   cert |-> cert.id,
                                   row |-> [ca |-> @.ca, cert |-> cert.id]]]
                    /\ last' = [op |-> "vpn.save", cfg |-> v, was |-> None,
                                err |-> NoError]
    ELSE /\ servercerts' = servercerts
         /\ vpns' = [vpns EXCEPT ![v] =
                       [adding |-> FALSE, ca |-> @.ca, cert |-> @.cert,
                        row |-> [ca |-> @.ca, cert |-> @.cert]]]
         /\ last' = [op |-> "vpn.save", cfg |-> v, was |-> None,
                     err |-> NoError]

\* vpn.save()
VpnSave(v) ==
    /\ BaseVpn_save(v)
    /\ UNCHANGED NotVpn

\* vpn.clean(), as full_clean() of the admin form calls it
VpnClean(v) ==
    /\ \E same \in (IF vpns[v].cert = NoCert THEN {TRUE}
                    ELSE is(CaPk[CertRow(vpns[v].cert).ca], CaPk[vpns[v].ca])) :
           last' = [op |-> "vpn.clean", cfg |-> v, was |-> None,
                    err |-> BaseVpn_clean(v, same)]
    /\ UNCHANGED <<vpns, servercerts>>
    /\ UNCHANGED NotVpn

\* the caller selects the CA and the certificate of the instance
VpnSelect(v, ca, k) ==
    /\ k \in {NoCert} \cup {x.id : x \in servercerts}
    /\ vpns' = [vpns EXCEPT ![v].ca = ca, ![v].cert = k]
    /\ last' = [op |-> "vpn.select", cfg |-> v, was |-> None, err |-> NoError]
    /\ UNCHANGED servercerts
    /\ UNCHANGED NotVpn

\* a server certificate is created by hand under a CA
IssueServerCert(ca) ==
    /\ issuing
    /\ ServerCertIds \ {x.id : x \in servercerts} # {}
    /\ servercerts' = servercerts \cup
           {[id |-> FreshServerCert, ca |-> ca, common_name |-> "manual",
             nsCertType |-> "server"]}
    /\ last' = [op |-> "cert.create", cfg |-> None, was |-> None,
                err |-> NoError]
    /\ UNCHANGED vpns
    /\ UNCHANGED NotVpn

InitVpn ==
    /\ adding = [c \in Configs |-> TRUE]
    /\ status = [c \in Configs |-> "modified"]
    /\ backend = InitialBackend
    /\ config = InitialConfig
    /\ dbStatus = [c \in Configs |-> "modified"]
    /\ dbBackend = InitialBackend
    /\ dbConfig = InitialConfig
    /\ attached = [c \in Configs |-> {}]
    /\ vpnclients = EmptyBag
    /\ certs = {}
    /\ device = [c \in Configs |-> DeviceTable[c]]
    /\ CONTEXT = <<>>
    /\ context = <<>>
    /\ tx = [p \in Procs |-> Idle]
    /\ issuing = TRUE
    /\ teardown = NoTeardown
    /\ vpns = [v \in Vpns |-> NewVpn(VpnTable[v].ca.common_name)]
    /\ servercerts = {}
    /\ last = [op |-> "init", cfg |-> None, was |-> None, err |-> NoError]

\* the Vpn whose CA and certificate are edited, and the CA under which
\* certificates are created by hand
EditedVpns == {"v2"}
ManualCas == {"ca-two"}

NextVpn ==
    \/ \E v \in Vpns : VpnSave(v)
    \/ \E v \in Vpns : VpnClean(v)
    \/ \E v \in EditedVpns, ca \in Cas, k \in {NoCert} \cup ServerCertIds :
           VpnSelect(v, ca, k)
    \/ \E ca \in ManualCas : IssueServerCert(ca)
    \/ IssuerTurns

SpecVpn == InitVpn /\ [][NextVpn]_vars

\* C18: a save of a Vpn that has no certificate adds exactly one server
\* certificate, issued by the CA of the Vpn, and sets it on the Vpn and its
\* row; a save of a Vpn that has a certificate adds none; and every Vpn that
\* is stored has a certificate that exists.
StoredVpnsHaveCert ==
    \A v \in Vpns :
        ~vpns[v].adding =>
            \E x \in servercerts : x.id = vpns[v].row.cert

SaveIssuesWhenMissing ==
    \A v \in Vpns :
        (last'.op = "vpn.save" /\ last'.cfg = v /\ last'.err = NoError) =>
            IF vpns[v].cert = NoCert
            THEN \E x \in servercerts' \ servercerts :
                    /\ servercerts' = servercerts \cup {x}
                    /\ x.ca = vpns[v].ca
                    /\ x.nsCertType = "server"
                    /\ vpns'[v].cert = x.id
                    /\ vpns'[v].row.cert = x.id
                    /\ ~vpns'[v].adding
            ELSE /\ servercerts' = servercerts
                 /\ vpns'[v].row.cert = vpns[v].cert
                 /\ ~vpns'[v].adding

C18_SaveIssuesWhenMissing == []StoredVpnsHaveCert /\ [][SaveIssuesWhenMissing]_vars

\* a Vpn that was saved twice holds the one certificate its first save issued
C18_Witness ==
    \E v \in Vpns :
        /\ last.op = "vpn.save" /\ last.cfg = v /\ last.err = NoError
        /\ ~vpns[v].adding
        /\ vpns[v].row.cert # NoCert
        /\ CertRow(vpns[v].row.cert).ca = vpns[v].ca
        /\ Cardinality(servercerts) = 1

\* C19: clean() of a Vpn raises a validation error on the field cert exactly
\* when a certificate is selected and the CA that issued it is not the CA of
\* the Vpn.
CleanRejectsForeignCa ==
    \A v \in Vpns :
        (last'.op = "vpn.clean" /\ last'.cfg = v) =>
            (last'.err = ValidationError("cert", CaMismatch)
                <=> /\ vpns[v].cert # NoCert
                    /\ CertRow(vpns[v].cert).ca # vpns[v].ca)

C19_CleanRejectsForeignCa == [][CleanRejectsForeignCa]_vars

-----------------------------------------------------------------------------
(* The VpnClient rows of a configuration against its attached templates *)

\* only the template-set operations: no caller creates or deletes a row
NextBinding ==
    \/ \E c \in Configs : Save(c)
    \/ \E c \in Configs : \E objs \in PkSets(c) : Attach(c, objs)
    \/ \E c \in Configs : \E objs \in PkSets(c) : Detach(c, objs)
    \/ \E c \in Configs : Clear(c)

SpecBinding == Init /\ [][NextBinding]_vars

\* the vpns that the attached vpn templates of a configuration reference
AttachedVpns(c) ==
    {TemplateTable[t].vpn : t \in {x \in attached[c] :
                                      TemplateTable[x].type = "vpn"}}

\* the vpns that the VpnClient rows of a configuration reference
BoundVpns(c) == {b.vpn : b \in {x \in DOMAIN vpnclients : x.config = c}}

\* C20: after any sequence of add(), remove() and clear() calls that return
\* without error, a VpnClient row of (configuration, V) exists exactly when a
\* vpn template that references V is attached to the configuration.
C20_BoundIffAttached ==
    \A c \in Configs : BoundVpns(c) = AttachedVpns(c)
====
